---------------------------- MODULE Spec2Model ----------------------------
(***************************************************************************)
(* Chunked virtual-memory arena for accelerator devices.                   *)
(*                                                                         *)
(* The module models src/cumem_functions.cpp (ensure_context,              *)
(* set_cpu_affinity_for_gpu, create_and_map, unmap_and_release) and the    *)
(* parts of src/cumem_test.cpp that prepare and tear down a region         *)
(* (get_memory_granularity, allocate_device_memory, free_device_memory).   *)
(* Every driver call of the code is one step whose outcome the driver      *)
(* chooses; the driver's bookkeeping (live handles, mappings, access,      *)
(* reservations, current context) is the environment the code runs         *)
(* against.                                                                *)
(*                                                                         *)
(* Specifications: Spec (one region through its life cycle), SpecGeom      *)
(* (chunk geometry over the range of size_t), SpecCtx (ensure_context      *)
(* called by main), SpecAff (the affinity binder over device ids),         *)
(* SpecPar (two threads, two regions, every interleaving) and SpecMain     *)
(* (main's passes over two regions, with the verification step and the     *)
(* allocated flag).                                                        *)
(***************************************************************************)
EXTENDS Integers, Sequences, FiniteSets, TLC

(***************************************************************************)
(* Bounds of the model.                                                    *)
(***************************************************************************)
\* Largest chunk count of a region driven through its life cycle.
MaxChunks == 3
\* Entry-point invocations (create_and_map, unmap_and_release) per region, and
\* calls of ensure_context main makes in the context runs.
MaxCalls == 3
\* Calls that fail although the driver could have served them, per run.
MaxFaults == 2
\* Geometry inputs: sizes k MiB - 1, k MiB, k MiB + 1 for k up to MaxMiB ...
MaxMiB == 300
\* ... and the MaxTop largest values of size_t.
MaxTop == 3
\* Devices main calls ensure_context for in the context runs: 0 .. MaxCtxDevices - 1.
MaxCtxDevices == 4
\* Largest device id the affinity binder is applied to in the affinity runs.
MaxAffinityDevice == 9
\* Concurrent runs and runs of main: largest chunk count of a region.
MaxParChunks == 2

(***************************************************************************)
(* Program constants.                                                      *)
(***************************************************************************)
\* const size_t CHUNK_SIZE_MB = 128;
CHUNK_SIZE_MB == 128
\* GPUs 0-3 are on NUMA node 0: if (_device <= 3)
LastNode0Device == 3
\* for (int i = 0; i < 48; i++) CPU_SET(i, &mask);
Node0CpuEnd == 48
\* for (int i = 48; i < 96; i++) CPU_SET(i, &mask);
Node1CpuEnd == 96
\* int max_devices = std::min(deviceCount, 8);
MaxDevices == 8

MiB == 1024 * 1024

\* size_t arithmetic wraps.  The build's size_t is 64 bits wide; TLC evaluates
\* 32-bit integers, so the model keeps every size_t expression of the code
\* modulo 2^30, a width that TLC can hold.  All wrap-around cases
\* of the code's expressions occur at this width as they do at 64 bits.
SizeModulus == 2 ^ 30
SIZE_MAX == SizeModulus - 1

(***************************************************************************)
(* Chunk geometry of allocate_device_memory (pure size_t arithmetic).      *)
(***************************************************************************)
\* Faulty variant: the size is rounded down to the granularity.
AlignUp_RoundDown(size, granularity) ==
    ((size \div granularity) * granularity) % SizeModulus

\* ((size + granularity - 1) / granularity) * granularity
AlignUp(size, granularity) ==
    ((((size + granularity - 1) % SizeModulus) \div granularity) * granularity)
        % SizeModulus

\* size_t aligned_chunk_size = ((CHUNK_SIZE_MB * 1024 * 1024 + granularity - 1)
\*                              / granularity) * granularity;
AlignedChunkSize(granularity) == AlignUp(CHUNK_SIZE_MB * 1024 * 1024, granularity)

\* mem.num_chunks = (mem.alignedSize + aligned_chunk_size - 1) / aligned_chunk_size;
NumChunks(alignedSize, aligned_chunk_size) ==
    ((alignedSize + aligned_chunk_size - 1) % SizeModulus) \div aligned_chunk_size

\* Faulty variant: the last chunk is not cut to the remainder.
ChunkSizeAt_NoRemainder(i, num_chunks, alignedSize, aligned_chunk_size) ==
    aligned_chunk_size

\* mem.chunk_sizes[i] = (i == mem.num_chunks - 1)
\*     ? (mem.alignedSize - (mem.num_chunks - 1) * aligned_chunk_size)
\*     : aligned_chunk_size;          (i is the C index, 0-based)
ChunkSizeAt(i, num_chunks, alignedSize, aligned_chunk_size) ==
    IF i = num_chunks - 1
    THEN (alignedSize + SizeModulus
            - (((num_chunks - 1) * aligned_chunk_size) % SizeModulus)) % SizeModulus
    ELSE aligned_chunk_size

\* The chunk_sizes array the initialisation loop fills (Sequence index = C index + 1).
ChunkSizes(alignedSize, granularity) ==
    LET acs == AlignedChunkSize(granularity)
        n   == NumChunks(alignedSize, acs)
    IN  [k \in 1..n |-> ChunkSizeAt(k - 1, n, alignedSize, acs)]

RECURSIVE SumSeq(_)
SumSeq(s) == IF s = << >> THEN 0 ELSE s[1] + SumSeq(Tail(s))

\* Sum of the first k entries of s: the offset of chunk k (C index) in the range.
PrefixSum(s, k) == SumSeq(SubSeq(s, 1, k))

(***************************************************************************)
(* State.                                                                  *)
(***************************************************************************)
\* Calling threads; each drives one DeviceMemory region.
Threads == {"t1", "t2"}
Devices == 0 .. (MaxDevices - 1)

VARIABLES
    \* --- caller side (struct DeviceMemory and main's locals), per thread ---
    mem,            \* [device, size, alignedSize, d_mem, p_memHandle, chunk_sizes,
                    \*  num_chunks, allocated]
    allocation_size,\* the size main asks for
    granularity,    \* granularities[i]: the driver's answer, 0 after a failed query
    ncalls,         \* entry-point invocations made so far
    hist,           \* finished invocations: <<[fn, ok]>>
    \* --- the running entry point, per thread ---
    pc,             \* position of the thread
    fn,             \* entry point being executed ("none" outside the core)
    args,           \* by-value arguments [device, size, d_mem, num_chunks]
    i,              \* loop index
    allocated_size, \* running offset of the map / unmap loop
    pctx,           \* ensure_context's local CUcontext ({} is the null context)
    calls,          \* calls issued by the running (or last) invocation, in order
    \* --- thread state kept by the OS and the driver ---
    ctx,            \* context current on the thread: {} or {device}
    mask,           \* scheduling affinity mask: set of CPUs
    \* --- driver state ---
    live,           \* handles created and not released
    nextHandle,     \* next handle value the driver hands out
    mapped,         \* mappings: set of [addr, size, h]
    access,         \* access grants: set of [addr, size, device]
    reserved,       \* reserved virtual ranges: set of [base, size]
    faults          \* calls the driver or the OS has failed for reasons of its own

vars == << mem, allocation_size, granularity, ncalls, hist, pc, fn, args, i, allocated_size, pctx,
           calls, ctx, mask, live, nextHandle, mapped, access, reserved, faults >>

callerVars == << mem, allocation_size, granularity, ncalls, hist >>
coreVars   == << fn, args, i, allocated_size, pctx, calls >>
threadVars == << ctx, mask >>
driverVars == << live, nextHandle, mapped, access, reserved >>

AllCpus   == 0 .. (Node1CpuEnd - 1)
Node0Cpus == 0 .. (Node0CpuEnd - 1)
Node1Cpus == Node0CpuEnd .. (Node1CpuEnd - 1)

\* One entry of the call log.
Call(op, idx, addr, size, h, ok) ==
    [op |-> op, idx |-> idx, addr |-> addr, size |-> size, h |-> h, ok |-> ok]

\* The OS call of the affinity binder is logged but is no driver call.
DriverCalls(log) == SelectSeq(log, LAMBDA c : c.op # "sched_setaffinity")

AllOk(log) == \A k \in 1..Len(log) : log[k].ok

(***************************************************************************)
(* The driver the code runs against (driver surface of the specification,  *)
(* section 6): when a call can succeed.  Any call may also fail for        *)
(* reasons of the driver's own.                                            *)
(***************************************************************************)
Overlaps(a1, s1, a2, s2) == a1 < a2 + s2 /\ a2 < a1 + s1

\* reserveVirtualRange: a non-empty range.
ReserveOk(size) == size > 0

\* The base the driver hands out: the lowest aligned address above every
\* reservation made so far (never the null address).
ReserveBase(alignment) ==
    LET tops == {r.base + r.size : r \in reserved} \cup {alignment}
        top  == CHOOSE x \in tops : \A y \in tops : y <= x
    IN  ((top + alignment - 1) \div alignment) * alignment

\* mapBlock: a live handle, into reserved and so far unmapped addresses.
MapOk(addr, size, h) ==
    /\ h \in live
    /\ size > 0
    /\ \E r \in reserved : r.base <= addr /\ addr + size <= r.base + r.size
    /\ \A m \in mapped : ~Overlaps(addr, size, m.addr, m.size)

\* unmapBlock: exactly a mapped range; a range with no mapping is rejected.
UnmapOk(addr, size) == \E m \in mapped : m.addr = addr /\ m.size = size

\* releasePhysicalBlock: a valid (live) handle; an invalid handle is rejected.
ReleaseOk(h) == h \in live

\* The mappings lying inside [addr, addr + size).
MappingsIn(addr, size) ==
    {m \in mapped : addr <= m.addr /\ m.addr + m.size <= addr + size}

RECURSIVE SumSizes(_)
SumSizes(ms) ==
    IF ms = {} THEN 0
    ELSE LET m == CHOOSE x \in ms : TRUE IN m.size + SumSizes(ms \ {m})

\* setAccess: a non-empty range that is mapped from end to end.
SetAccessOk(addr, size) ==
    /\ size > 0
    /\ \A m \in mapped :
          Overlaps(addr, size, m.addr, m.size) => m \in MappingsIn(addr, size)
    /\ SumSizes(MappingsIn(addr, size)) = size

\* freeVirtualRange: a reserved range with nothing mapped in it.
FreeOk(base, size) ==
    /\ [base |-> base, size |-> size] \in reserved
    /\ \A m \in mapped : ~Overlaps(base, size, m.addr, m.size)

\* The outcomes the driver can give a call whose precondition is `can`: a call
\* it must reject fails; any other call succeeds or, while the run's budget of
\* injected failures lasts, fails.
Outcomes(can) ==
    IF ~can THEN {FALSE} ELSE IF faults < MaxFaults THEN BOOLEAN ELSE {TRUE}

Faulted(can, ok) == faults' = IF can /\ ~ok THEN faults + 1 ELSE faults

(***************************************************************************)
(* Initial states.                                                         *)
(***************************************************************************)
\* DeviceMemory() sets allocated(false); the other fields are filled by
\* main (device) and allocate_device_memory.
NewMem(device) ==
    [device |-> device, size |-> 0, alignedSize |-> 0, d_mem |-> 0,
     p_memHandle |-> << >>, chunk_sizes |-> << >>, num_chunks |-> 0,
     allocated |-> FALSE]

\* Granularities the driver answers with in the life-cycle runs.
DriverGranularities == {2 * MiB}

\* Requested sizes of the life-cycle runs: one byte into the k-th chunk,
\* which gives regions of 1 .. MaxChunks chunks.
LifecycleSizes == {(k - 1) * CHUNK_SIZE_MB * MiB + 1 : k \in 1..MaxChunks}

\* Devices of the life-cycle runs: the two sides of the NUMA split.
LifecycleDevices == {LastNode0Device, LastNode0Device + 1}

\* The context a thread can hold before the core is entered: none, or the
\* primary context of a device an earlier ensure_context made current.
InitialContexts == {{}} \cup {{d} : d \in LifecycleDevices}

InitCommon ==
    /\ ncalls = [t \in Threads |-> 0]
    /\ hist = [t \in Threads |-> << >>]
    /\ fn = [t \in Threads |-> "none"]
    /\ args = [t \in Threads |-> [device |-> 0, size |-> 0, d_mem |-> 0, num_chunks |-> 0]]
    /\ i = [t \in Threads |-> 0]
    /\ allocated_size = [t \in Threads |-> 0]
    /\ pctx = [t \in Threads |-> {}]
    /\ calls = [t \in Threads |-> << >>]
    /\ mask = [t \in Threads |-> AllCpus]
    /\ live = {}
    /\ nextHandle = 1
    /\ mapped = {}
    /\ access = {}
    /\ reserved = {}
    /\ faults = 0

\* One thread drives one region through its life cycle.
Init ==
    /\ InitCommon
    /\ \E d \in LifecycleDevices :
          mem = [t \in Threads |-> NewMem(d)]
    /\ \E sz \in LifecycleSizes :
          allocation_size = [t \in Threads |-> IF t = "t1" THEN sz ELSE 0]
    /\ granularity = [t \in Threads |-> 0]
    /\ pc = [t \in Threads |-> IF t = "t1" THEN "start" ELSE "off"]
    /\ \E c \in InitialContexts : ctx = [t \in Threads |-> c]

(***************************************************************************)
(* The caller: main, allocate_device_memory, free_device_memory.           *)
(***************************************************************************)
\* granularities[i] = get_memory_granularity(i); a failed query gives 0 and
\* main skips the device in both passes.
get_memory_granularity(t) ==
    /\ pc[t] = "start"
    /\ \E ok \in Outcomes(TRUE), g \in DriverGranularities :
          /\ Faulted(TRUE, ok)
          /\ granularity' = [granularity EXCEPT ![t] = IF ok THEN g ELSE 0]
          /\ pc' = [pc EXCEPT ![t] = IF ok THEN "alloc" ELSE "skipped"]
    /\ UNCHANGED << mem, allocation_size, ncalls, hist, coreVars, threadVars, driverVars >>

\* Faulty variant: the result of the reservation is not checked.
AfterReserve_Unchecked(ok) == "idle"

\* allocate_device_memory: if (result != CUDA_SUCCESS) { ...; return false; }
\* after cuMemAddressReserve; otherwise it goes on to lay out the chunks and
\* to call create_and_map.
AfterReserve(ok) == IF ok THEN "idle" ELSE "alloc_failed"

\* allocate_device_memory up to the call of create_and_map: align the size,
\* reserve the range, lay out the chunks and allocate the two arrays.  From
\* there the caller invokes the two entry points on the region (in the
\* life-cycle runs in any order and number up to MaxCalls, of which the
\* harness's create_and_map, unmap_and_release, cuMemAddressFree is one).
allocate_device_memory(t) ==
    /\ pc[t] = "alloc"
    /\ LET size == allocation_size[t]
           g    == granularity[t]
           a    == AlignUp(size, g)
       IN  \E ok \in Outcomes(ReserveOk(a)) :
             /\ Faulted(ReserveOk(a), ok)
             /\ IF ok
                THEN LET base == ReserveBase(g)
                         cs   == ChunkSizes(a, g)
                     IN  /\ reserved' = reserved \cup {[base |-> base, size |-> a]}
                         /\ mem' = [mem EXCEPT ![t] =
                               [@ EXCEPT !.size = size, !.alignedSize = a, !.d_mem = base,
                                         !.chunk_sizes = cs, !.num_chunks = Len(cs),
                                         !.p_memHandle = [k \in 1..Len(cs) |-> 0]]]
                         /\ pc' = [pc EXCEPT ![t] = AfterReserve(ok)]
                ELSE /\ mem' = [mem EXCEPT ![t] = [@ EXCEPT !.size = size, !.alignedSize = a]]
                     /\ pc' = [pc EXCEPT ![t] = AfterReserve(ok)]
                     /\ UNCHANGED reserved
    /\ UNCHANGED << allocation_size, granularity, ncalls, hist, coreVars, threadVars,
                    live, nextHandle, mapped, access >>

\* Faulty variant: the requested size is passed, not the aligned size.
CallArgs_RequestedSize(m) ==
    [device |-> m.device, size |-> m.size, d_mem |-> m.d_mem,
     num_chunks |-> m.num_chunks]

\* create_and_map(mem.device, mem.alignedSize, mem.d_mem, mem.p_memHandle,
\*                mem.chunk_sizes, mem.num_chunks);
CallArgs(m) ==
    [device |-> m.device, size |-> m.alignedSize, d_mem |-> m.d_mem,
     num_chunks |-> m.num_chunks]

\* The call of entry point f: its by-value arguments are copied, its locals
\* are fresh, and it starts with ensure_context(device).
Enter(t, f) ==
    /\ ncalls[t] < MaxCalls
    /\ ncalls' = [ncalls EXCEPT ![t] = @ + 1]
    /\ fn' = [fn EXCEPT ![t] = f]
    /\ args' = [args EXCEPT ![t] = CallArgs(mem[t])]
    /\ calls' = [calls EXCEPT ![t] = << >>]
    /\ i' = [i EXCEPT ![t] = 0]
    /\ allocated_size' = [allocated_size EXCEPT ![t] = 0]
    /\ pctx' = [pctx EXCEPT ![t] = {}]
    /\ pc' = [pc EXCEPT ![t] = "ctx_get"]
    /\ UNCHANGED << faults, mem, allocation_size, granularity, hist, threadVars, driverVars >>

CallCreateAndMap(t) ==
    /\ pc[t] = "idle"
    /\ Enter(t, "create_and_map")

\* unmap_and_release(mem.device, mem.alignedSize, mem.d_mem, mem.p_memHandle,
\*                   mem.chunk_sizes, mem.num_chunks);
\* The caller tears down only a region it has run create_and_map on, however
\* that run ended.
CallUnmapAndRelease(t) ==
    /\ pc[t] = "idle"
    /\ hist[t] # << >>
    /\ Enter(t, "unmap_and_release")

\* cuMemAddressFree(mem.d_mem, mem.alignedSize) of free_device_memory; on
\* failure it returns false, on success it clears the flag
\* (mem.allocated = false) and returns true.
AddressFree(t) ==
    /\ pc[t] = "idle"
    /\ \E ok \in Outcomes(FreeOk(mem[t].d_mem, mem[t].alignedSize)) :
          /\ Faulted(FreeOk(mem[t].d_mem, mem[t].alignedSize), ok)
          /\ IF ok
             THEN /\ reserved' = reserved \ {[base |-> mem[t].d_mem, size |-> mem[t].alignedSize]}
                  /\ mem' = [mem EXCEPT ![t] = [@ EXCEPT !.allocated = FALSE]]
                  /\ pc' = [pc EXCEPT ![t] = "freed"]
             ELSE /\ pc' = [pc EXCEPT ![t] = "free_failed"]
                  /\ UNCHANGED << reserved, mem >>
    /\ UNCHANGED << allocation_size, granularity, ncalls, hist, coreVars, threadVars,
                    live, nextHandle, mapped, access >>

\* allocate_device_memory: const size_t test_size = 1 * 1024 * 1024;
TestSize == MiB

\* hipMemcpy to or from device memory: the whole range copied is accessible
\* to the device (mapped and covered by an access grant for it).
CopyOk(addr, size, device) ==
    \E g \in access :
        /\ g.device = device
        /\ g.addr <= addr /\ addr + size <= g.addr + g.size

\* create_and_map has returned to allocate_device_memory.
CreateAndMapReturned(t) ==
    /\ pc[t] = "idle"
    /\ hist[t] # << >>
    /\ hist[t][Len(hist[t])].fn = "create_and_map"
    /\ ~mem[t].allocated

\* allocate_device_memory, verification (verify is true in main's call):
\*   hipMemcpy((void*)mem.d_mem, h_data, test_size, hipMemcpyHostToDevice);
\*   if (hip_result != hipSuccess) { ...; return false; }
\* It is run whatever create_and_map met: create_and_map returns nothing.
VerifyCopyIn(t) ==
    /\ CreateAndMapReturned(t)
    /\ LET can == CopyOk(mem[t].d_mem, TestSize, mem[t].device)
       IN  \E ok \in Outcomes(can) :
             /\ Faulted(can, ok)
             /\ pc' = [pc EXCEPT ![t] = IF ok THEN "verify_out" ELSE "alloc_failed"]
    /\ UNCHANGED << callerVars, coreVars, threadVars, driverVars >>

\* Faulty variant: the flag is set whatever the verification gave.
FlagAfterVerify_Always(ok) == TRUE

\* allocate_device_memory: mem.allocated = true; is reached only when the
\* copy back succeeded and the data compared equal; every other exit is
\* return false; with the flag as DeviceMemory() set it.
FlagAfterVerify(ok) == ok

\* allocate_device_memory, verification:
\*   hipMemcpy(h_result, (void*)mem.d_mem, test_size, hipMemcpyDeviceToHost);
\*   return false on failure; compare h_data with h_result, return false on a
\*   difference; mem.allocated = true; return true;
\* ok stands for a copy that succeeded with data that compared equal.
VerifyCopyOut(t) ==
    /\ pc[t] = "verify_out"
    /\ LET can == CopyOk(mem[t].d_mem, TestSize, mem[t].device)
       IN  \E ok \in Outcomes(can) :
             /\ Faulted(can, ok)
             /\ mem' = [mem EXCEPT ![t] = [@ EXCEPT !.allocated = FlagAfterVerify(ok)]]
             /\ pc' = [pc EXCEPT ![t] = IF ok THEN "allocated" ELSE "alloc_failed"]
    /\ UNCHANGED << allocation_size, granularity, ncalls, hist, coreVars, threadVars,
                    driverVars >>

\* Faulty variant: the flag is not looked at, every region is torn down.
IsAllocated_Unchecked(m) == TRUE

\* main, release loop: if (!device_memories[i].allocated) continue; and
\* free_device_memory: if (!mem.allocated) return true;
IsAllocated(m) == m.allocated

\* main's release loop at a region main has dealt with in its second pass
\* (skipped for its granularity, allocate_device_memory returned false, or
\* returned true): a region whose flag is not set is passed over, for the
\* others free_device_memory is called, which calls unmap_and_release.
ReleaseRegion(t) ==
    /\ pc[t] \in {"skipped", "alloc_failed", "allocated"}
    /\ IF IsAllocated(mem[t])
       THEN Enter(t, "unmap_and_release")
       ELSE /\ pc' = [pc EXCEPT ![t] = IF pc[t] = "skipped" THEN "passed" ELSE "unreleased"]
            /\ UNCHANGED << faults, callerVars, coreVars, threadVars, driverVars >>

(***************************************************************************)
(* The core: src/cumem_functions.cpp.                                      *)
(***************************************************************************)
Log(t, c) == calls' = [calls EXCEPT ![t] = Append(@, c)]

\* `return;` of an entry point: the thread is back in the caller.
Return(t, log) ==
    /\ pc' = [pc EXCEPT ![t] = "idle"]
    /\ hist' = [hist EXCEPT ![t] =
                  Append(@, [fn |-> fn[t], ok |-> AllOk(DriverCalls(log))])]

\* Where the thread continues when ensure_context returns, whether it
\* returns normally or after reporting an error (it is a void function):
\* create_and_map goes on to set_cpu_affinity_for_gpu, unmap_and_release to
\* its unmap loop, and a call made by main returns to main.
AfterContext(t) ==
    IF fn[t] = "create_and_map" THEN "affinity"
    ELSE IF fn[t] = "unmap_and_release" THEN "unmap"
    ELSE "ctx_return"

\* Faulty variant: the primary context is retained and made current even
\* when a context is already current.
NeedsContext_Always(p) == TRUE

\* ensure_context: if (!pctx)
NeedsContext(p) == p = {}

\* ensure_context: CUresult result = cuCtxGetCurrent(&pctx);
CtxGetCurrent(t) ==
    /\ pc[t] = "ctx_get"
    /\ \E ok \in Outcomes(TRUE) :
          /\ Faulted(TRUE, ok)
          /\ Log(t, Call("cuCtxGetCurrent", 0, 0, 0, 0, ok))
          /\ pctx' = [pctx EXCEPT ![t] = IF ok THEN ctx[t] ELSE @]
          /\ pc' = [pc EXCEPT ![t] =
                      IF ok /\ NeedsContext(ctx[t]) THEN "ctx_retain"
                      ELSE AfterContext(t)]
    /\ UNCHANGED << callerVars, fn, args, i, allocated_size, threadVars, driverVars >>

\* ensure_context: result = cuDevicePrimaryCtxRetain(&pctx, device);
CtxRetain(t) ==
    /\ pc[t] = "ctx_retain"
    /\ \E ok \in Outcomes(TRUE) :
          /\ Faulted(TRUE, ok)
          /\ Log(t, Call("cuDevicePrimaryCtxRetain", 0, 0, 0, 0, ok))
          /\ pctx' = [pctx EXCEPT ![t] = IF ok THEN {args[t].device} ELSE @]
          /\ pc' = [pc EXCEPT ![t] = IF ok THEN "ctx_set" ELSE AfterContext(t)]
    /\ UNCHANGED << callerVars, fn, args, i, allocated_size, threadVars, driverVars >>

\* ensure_context: result = cuCtxSetCurrent(pctx);
CtxSetCurrent(t) ==
    /\ pc[t] = "ctx_set"
    /\ \E ok \in Outcomes(TRUE) :
          /\ Faulted(TRUE, ok)
          /\ Log(t, Call("cuCtxSetCurrent", 0, 0, 0, 0, ok))
          /\ ctx' = [ctx EXCEPT ![t] = IF ok THEN pctx[t] ELSE @]
          /\ pc' = [pc EXCEPT ![t] = AfterContext(t)]
    /\ UNCHANGED << callerVars, fn, args, i, allocated_size, pctx, mask, driverVars >>

\* Faulty variant: the split is one device too low.
CpuSetFor_SplitBelow(device) ==
    IF device < LastNode0Device THEN Node0Cpus ELSE Node1Cpus

\* The CPU set set_cpu_affinity_for_gpu builds for a device.
CpuSetFor(device) == IF device <= LastNode0Device THEN Node0Cpus ELSE Node1Cpus

\* Faulty variant: a failed bind makes create_and_map return.
AfterAffinity_Fatal(ok) == IF ok THEN "create" ELSE "idle"

\* set_cpu_affinity_for_gpu: if (result != 0) only reports; the function
\* returns to create_and_map, which goes on to its first loop.
AfterAffinity(ok) == "create"

\* set_cpu_affinity_for_gpu: sched_setaffinity(tid, sizeof(mask), &mask); a
\* failure is reported and the function returns as after a success.
set_cpu_affinity_for_gpu(t) ==
    /\ pc[t] = "affinity"
    /\ \E ok \in Outcomes(TRUE) :
          /\ Faulted(TRUE, ok)
          /\ Log(t, Call("sched_setaffinity", 0, 0, 0, 0, ok))
          /\ mask' = [mask EXCEPT ![t] = IF ok THEN CpuSetFor(args[t].device) ELSE @]
          /\ pc' = [pc EXCEPT ![t] = AfterAffinity(ok)]
    /\ UNCHANGED << callerVars, fn, args, i, allocated_size, pctx, ctx, driverVars >>

\* The handles the running create_and_map has created so far.
CreatedSoFar(t) == {mem[t].p_memHandle[k] : k \in 1..i[t]}

\* Faulty variant: a failed creation releases the handles created before it.
OnCreateFailure_Rollback(t) ==
    /\ Return(t, calls'[t])
    /\ live' = live \ CreatedSoFar(t)
    /\ UNCHANGED << mem, i, nextHandle >>

\* Faulty variant: a failed creation is reported and the loop goes on to the
\* next chunk.
OnCreateFailure_Continue(t) ==
    /\ i' = [i EXCEPT ![t] = @ + 1]
    /\ UNCHANGED << pc, hist, mem, live, nextHandle >>

\* create_and_map, first loop, if (result != CUDA_SUCCESS): report and return;
\* the handles created so far are left as they are.
OnCreateFailure(t) ==
    /\ Return(t, calls'[t])
    /\ UNCHANGED << mem, i, live, nextHandle >>

\* Faulty variant: the handle is written to the slot after the chunk's.
StoreHandle_NextSlot(m, k, h) ==
    [m EXCEPT !.p_memHandle =
        [j \in DOMAIN @ |-> IF j = k + 2 THEN h ELSE @[j]]]

\* cuMemCreate(p_memHandle[i], ...) writes the new handle through the
\* pointer in slot i of the caller's array (k is the C index).
StoreHandle(m, k, h) == [m EXCEPT !.p_memHandle[k + 1] = h]

\* create_and_map, first loop:
\*   cuMemCreate(p_memHandle[i], chunk_sizes[i], &prop, 0); return on failure.
CreateChunk(t) ==
    /\ pc[t] = "create"
    /\ i[t] < args[t].num_chunks
    /\ LET size == mem[t].chunk_sizes[i[t] + 1]
       IN  \E ok \in Outcomes(size > 0) :
             /\ Faulted(size > 0, ok)
             /\ IF ok
                THEN /\ Log(t, Call("cuMemCreate", i[t], 0, size, nextHandle, TRUE))
                     /\ live' = live \cup {nextHandle}
                     /\ nextHandle' = nextHandle + 1
                     /\ mem' = [mem EXCEPT ![t] = StoreHandle(@, i[t], nextHandle)]
                     /\ i' = [i EXCEPT ![t] = @ + 1]
                     /\ UNCHANGED << pc, hist >>
                ELSE /\ Log(t, Call("cuMemCreate", i[t], 0, size, 0, FALSE))
                     /\ OnCreateFailure(t)
    /\ UNCHANGED << allocation_size, granularity, ncalls, fn, args, allocated_size, pctx,
                    threadVars, mapped, access, reserved >>

\* create_and_map: the first loop is over; unsigned long long allocated_size = 0;
CreateLoopExit(t) ==
    /\ pc[t] = "create"
    /\ ~(i[t] < args[t].num_chunks)
    /\ pc' = [pc EXCEPT ![t] = "map"]
    /\ i' = [i EXCEPT ![t] = 0]
    /\ allocated_size' = [allocated_size EXCEPT ![t] = 0]
    /\ UNCHANGED << faults, callerVars, fn, args, pctx, calls, threadVars, driverVars >>

\* Faulty variant: every chunk is mapped at the base of the range.
MapAddr_NoOffset(t) == args[t].d_mem

\* Faulty variant: the running offset is one variable shared by all threads
\* (a static local), so it holds the sum of what every thread has added.
MapAddr_SharedOffset(t) ==
    args[t].d_mem + allocated_size[t] + allocated_size[CHOOSE u \in Threads : u # t]

\* void* map_addr = (void*)((uintptr_t)d_mem + allocated_size);
MapAddr(t) == args[t].d_mem + allocated_size[t]

\* Faulty variant: a failed mapping releases every handle of the region.
OnMapFailure_Rollback(t) ==
    /\ Return(t, calls'[t])
    /\ live' = live \ {mem[t].p_memHandle[k] : k \in 1..args[t].num_chunks}
    /\ UNCHANGED << mapped, allocated_size, i >>

\* create_and_map, second loop, if (result != CUDA_SUCCESS): report and
\* return; mappings and handles are left as they are.
OnMapFailure(t) ==
    /\ Return(t, calls'[t])
    /\ UNCHANGED << mapped, allocated_size, i, live >>

\* create_and_map, second loop:
\*   map_addr = d_mem + allocated_size;
\*   cuMemMap(map_addr, chunk_sizes[i], 0, *(p_memHandle[i]), 0); return on failure;
\*   allocated_size += chunk_sizes[i];
MapChunk(t) ==
    /\ pc[t] = "map"
    /\ i[t] < args[t].num_chunks
    /\ LET map_addr == MapAddr(t)
           size     == mem[t].chunk_sizes[i[t] + 1]
           h        == mem[t].p_memHandle[i[t] + 1]
       IN  \E ok \in Outcomes(MapOk(map_addr, size, h)) :
             /\ Faulted(MapOk(map_addr, size, h), ok)
             /\ Log(t, Call("cuMemMap", i[t], map_addr, size, h, ok))
             /\ IF ok
                THEN /\ mapped' = mapped \cup {[addr |-> map_addr, size |-> size, h |-> h]}
                     /\ allocated_size' = [allocated_size EXCEPT ![t] = @ + size]
                     /\ i' = [i EXCEPT ![t] = @ + 1]
                     /\ UNCHANGED << pc, hist, live >>
                ELSE OnMapFailure(t)
    /\ UNCHANGED << mem, allocation_size, granularity, ncalls, fn, args, pctx,
                    threadVars, nextHandle, access, reserved >>

\* create_and_map: the second loop is over.
MapLoopExit(t) ==
    /\ pc[t] = "map"
    /\ ~(i[t] < args[t].num_chunks)
    /\ pc' = [pc EXCEPT ![t] = "access"]
    /\ UNCHANGED << faults, callerVars, coreVars, threadVars, driverVars >>

\* The mappings that lie in the range the running entry point was given.
RegionMappings(t) == MappingsIn(args[t].d_mem, args[t].size)

\* Faulty variant: a failed access grant unmaps the region.
OnAccessFailure_Unmap(t) ==
    /\ Return(t, calls'[t])
    /\ mapped' = mapped \ RegionMappings(t)
    /\ UNCHANGED << access, live >>

\* create_and_map, if (result != CUDA_SUCCESS) after cuMemSetAccess: report
\* and return; nothing is unmapped or released.
OnAccessFailure(t) ==
    /\ Return(t, calls'[t])
    /\ UNCHANGED << access, mapped, live >>

\* create_and_map: cuMemSetAccess(d_mem, size, &accessDesc, 1) with
\* accessDesc.location.id = device; the function returns after it either way.
SetAccess(t) ==
    /\ pc[t] = "access"
    /\ \E ok \in Outcomes(SetAccessOk(args[t].d_mem, args[t].size)) :
          /\ Faulted(SetAccessOk(args[t].d_mem, args[t].size), ok)
          /\ Log(t, Call("cuMemSetAccess", 0, args[t].d_mem, args[t].size, 0, ok))
          /\ IF ok
             THEN /\ access' = access \cup {[addr |-> args[t].d_mem, size |-> args[t].size,
                                             device |-> args[t].device]}
                  /\ Return(t, calls'[t])
                  /\ UNCHANGED << mapped, live >>
             ELSE OnAccessFailure(t)
    /\ UNCHANGED << mem, allocation_size, granularity, ncalls, fn, args, i, allocated_size,
                    pctx, threadVars, nextHandle, reserved >>

\* Faulty variant: a failed unmap is reported and the loop goes on to the next chunk.
OnUnmapFailure_Continue(t) ==
    /\ i' = [i EXCEPT ![t] = @ + 1]
    /\ UNCHANGED << pc, hist, mapped, access, allocated_size >>

\* Faulty variant: a failed unmap leaves the unmap loop (break) and the
\* release loop runs.
OnUnmapFailure_Break(t) ==
    /\ pc' = [pc EXCEPT ![t] = "release"]
    /\ i' = [i EXCEPT ![t] = 0]
    /\ UNCHANGED << hist, mapped, access, allocated_size >>

\* unmap_and_release, first loop, if (result != CUDA_SUCCESS): report and return.
OnUnmapFailure(t) ==
    /\ Return(t, calls'[t])
    /\ UNCHANGED << mapped, access, allocated_size, i >>

\* Faulty variant: the release loop leaves out the last chunk.
ReleaseLoopCond_OffByOne(t) == i[t] < args[t].num_chunks - 1

\* unmap_and_release, second loop: i < num_chunks
ReleaseLoopCond(t) == i[t] < args[t].num_chunks

\* Faulty variant: the unmap loop leaves out the last chunk.
UnmapLoopCond_OffByOne(t) == i[t] < args[t].num_chunks - 1

\* unmap_and_release, first loop: i < num_chunks
UnmapLoopCond(t) == i[t] < args[t].num_chunks

\* Faulty variant: every chunk is unmapped at the base of the range.
UnmapAddr_NoOffset(t) == args[t].d_mem

\* unmap_and_release: void* map_addr = (void*)((uintptr_t)d_mem + allocated_size);
UnmapAddr(t) == args[t].d_mem + allocated_size[t]

\* unmap_and_release, first loop:
\*   map_addr = d_mem + allocated_size;
\*   cuMemUnmap(map_addr, chunk_sizes[i]); return on failure;
\*   allocated_size += chunk_sizes[i];
UnmapChunk(t) ==
    /\ pc[t] = "unmap"
    /\ UnmapLoopCond(t)
    /\ LET map_addr == UnmapAddr(t)
           size     == mem[t].chunk_sizes[i[t] + 1]
       IN  \E ok \in Outcomes(UnmapOk(map_addr, size)) :
             /\ Faulted(UnmapOk(map_addr, size), ok)
             /\ Log(t, Call("cuMemUnmap", i[t], map_addr, size, 0, ok))
             /\ IF ok
                THEN /\ mapped' = {m \in mapped : ~(m.addr = map_addr /\ m.size = size)}
                     /\ access' = {g \in access : ~Overlaps(g.addr, g.size, map_addr, size)}
                     /\ allocated_size' = [allocated_size EXCEPT ![t] = @ + size]
                     /\ i' = [i EXCEPT ![t] = @ + 1]
                     /\ UNCHANGED << pc, hist >>
                ELSE OnUnmapFailure(t)
    /\ UNCHANGED << mem, allocation_size, granularity, ncalls, fn, args, pctx,
                    threadVars, live, nextHandle, reserved >>

\* unmap_and_release: the first loop is over.
UnmapLoopExit(t) ==
    /\ pc[t] = "unmap"
    /\ ~UnmapLoopCond(t)
    /\ pc' = [pc EXCEPT ![t] = "release"]
    /\ i' = [i EXCEPT ![t] = 0]
    /\ UNCHANGED << faults, callerVars, fn, args, allocated_size, pctx, calls, threadVars,
                    driverVars >>

\* unmap_and_release, second loop:
\*   cuMemRelease(*(p_memHandle[i])); return on failure.
ReleaseChunk(t) ==
    /\ pc[t] = "release"
    /\ ReleaseLoopCond(t)
    /\ LET h == mem[t].p_memHandle[i[t] + 1]
       IN  \E ok \in Outcomes(ReleaseOk(h)) :
             /\ Faulted(ReleaseOk(h), ok)
             /\ Log(t, Call("cuMemRelease", i[t], 0, 0, h, ok))
             /\ IF ok
                THEN /\ live' = live \ {h}
                     /\ i' = [i EXCEPT ![t] = @ + 1]
                     /\ UNCHANGED << pc, hist >>
                ELSE /\ Return(t, calls'[t])
                     /\ UNCHANGED << live, i >>
    /\ UNCHANGED << mem, allocation_size, granularity, ncalls, fn, args, allocated_size,
                    pctx, threadVars, nextHandle, mapped, access, reserved >>

\* unmap_and_release: the second loop is over and the function returns.
ReleaseLoopExit(t) ==
    /\ pc[t] = "release"
    /\ ~ReleaseLoopCond(t)
    /\ Return(t, calls[t])
    /\ UNCHANGED << faults, mem, allocation_size, granularity, ncalls, coreVars, threadVars,
                    driverVars >>

(***************************************************************************)
(* Specifications.                                                         *)
(***************************************************************************)
CoreStep(t) ==
    \/ CtxGetCurrent(t)
    \/ CtxRetain(t)
    \/ CtxSetCurrent(t)
    \/ set_cpu_affinity_for_gpu(t)
    \/ CreateChunk(t)
    \/ CreateLoopExit(t)
    \/ MapChunk(t)
    \/ MapLoopExit(t)
    \/ SetAccess(t)
    \/ UnmapChunk(t)
    \/ UnmapLoopExit(t)
    \/ ReleaseChunk(t)
    \/ ReleaseLoopExit(t)

Next ==
    \E t \in Threads :
        \/ get_memory_granularity(t)
        \/ allocate_device_memory(t)
        \/ CallCreateAndMap(t)
        \/ CallUnmapAndRelease(t)
        \/ AddressFree(t)
        \/ CoreStep(t)

Spec == Init /\ [][Next]_vars

(***************************************************************************)
(* Context runs: main calls ensure_context directly (first pass of main),  *)
(* for any device and from any current context.                            *)
(***************************************************************************)
ContextDevices == 0 .. (MaxCtxDevices - 1)

InitCtx ==
    /\ InitCommon
    /\ mem = [t \in Threads |-> NewMem(0)]
    /\ allocation_size = [t \in Threads |-> 0]
    /\ granularity = [t \in Threads |-> 0]
    /\ pc = [t \in Threads |-> IF t = "t1" THEN "main" ELSE "off"]
    /\ \E c \in {{}} \cup {{d} : d \in ContextDevices} :
          ctx = [t \in Threads |-> c]

\* main: ensure_context(i);
CallEnsureContext(t) ==
    /\ pc[t] = "main"
    /\ ncalls[t] < MaxCalls
    /\ \E d \in ContextDevices : args' = [args EXCEPT ![t].device = d]
    /\ ncalls' = [ncalls EXCEPT ![t] = @ + 1]
    /\ fn' = [fn EXCEPT ![t] = "ensure_context"]
    /\ calls' = [calls EXCEPT ![t] = << >>]
    /\ pctx' = [pctx EXCEPT ![t] = {}]
    /\ pc' = [pc EXCEPT ![t] = "ctx_get"]
    /\ UNCHANGED << faults, mem, allocation_size, granularity, hist, i, allocated_size,
                    threadVars, driverVars >>

\* ensure_context returns to main; the finished call is recorded with its
\* device, its driver calls and the context it left current.
EnsureContextReturn(t) ==
    /\ pc[t] = "ctx_return"
    /\ pc' = [pc EXCEPT ![t] = "main"]
    /\ hist' = [hist EXCEPT ![t] =
                  Append(@, [fn |-> fn[t], ok |-> AllOk(calls[t]),
                             device |-> args[t].device, calls |-> calls[t],
                             ctx |-> ctx[t]])]
    /\ UNCHANGED << faults, mem, allocation_size, granularity, ncalls, coreVars,
                    threadVars, driverVars >>

NextCtx ==
    \E t \in Threads :
        \/ CallEnsureContext(t)
        \/ CtxGetCurrent(t)
        \/ CtxRetain(t)
        \/ CtxSetCurrent(t)
        \/ EnsureContextReturn(t)

SpecCtx == InitCtx /\ [][NextCtx]_vars

(***************************************************************************)
(* Affinity runs: set_cpu_affinity_for_gpu applied to every device id, on  *)
(* two threads that each bind themselves for a device of their own.        *)
(***************************************************************************)
AffinityDevices == 0 .. MaxAffinityDevice

\* Each thread is in create_and_map(device, ...), about to call
\* set_cpu_affinity_for_gpu(device).
InitAff ==
    /\ ncalls = [t \in Threads |-> 1]
    /\ hist = [t \in Threads |-> << >>]
    /\ fn = [t \in Threads |-> "create_and_map"]
    /\ \E dev \in [Threads -> AffinityDevices] :
          args = [t \in Threads |->
                    [device |-> dev[t], size |-> 0, d_mem |-> 0, num_chunks |-> 0]]
    /\ i = [t \in Threads |-> 0]
    /\ allocated_size = [t \in Threads |-> 0]
    /\ pctx = [t \in Threads |-> {}]
    /\ calls = [t \in Threads |-> << >>]
    /\ mask = [t \in Threads |-> AllCpus]
    /\ live = {}
    /\ nextHandle = 1
    /\ mapped = {}
    /\ access = {}
    /\ reserved = {}
    /\ faults = 0
    /\ mem = [t \in Threads |-> NewMem(0)]
    /\ allocation_size = [t \in Threads |-> 0]
    /\ granularity = [t \in Threads |-> 0]
    /\ pc = [t \in Threads |-> "affinity"]
    /\ ctx = [t \in Threads |-> {}]

NextAff == \E t \in Threads : set_cpu_affinity_for_gpu(t)

SpecAff == InitAff /\ [][NextAff]_vars

(***************************************************************************)
(* Concurrent runs: two threads, each with a region of its own for a       *)
(* device of its own, each running allocate_device_memory's reservation,   *)
(* create_and_map, unmap_and_release and the address free; their steps     *)
(* interleave in every order.                                              *)
(***************************************************************************)
ParDevice(t) == IF t = "t1" THEN LastNode0Device ELSE LastNode0Device + 1

ParSizes == {(k - 1) * CHUNK_SIZE_MB * MiB + 1 : k \in 1..MaxParChunks}

\* Each thread has bound the context of its own device before it drives its
\* region, and the driver has answered the granularity queries.
InitPar ==
    /\ ncalls = [t \in Threads |-> 0]
    /\ hist = [t \in Threads |-> << >>]
    /\ fn = [t \in Threads |-> "none"]
    /\ args = [t \in Threads |-> [device |-> 0, size |-> 0, d_mem |-> 0, num_chunks |-> 0]]
    /\ i = [t \in Threads |-> 0]
    /\ allocated_size = [t \in Threads |-> 0]
    /\ pctx = [t \in Threads |-> {}]
    /\ calls = [t \in Threads |-> << >>]
    /\ mask = [t \in Threads |-> AllCpus]
    /\ live = {}
    /\ nextHandle = 1
    /\ mapped = {}
    /\ access = {}
    /\ reserved = {}
    /\ faults = MaxFaults - 1         \* one failing call per concurrent run
    /\ mem = [t \in Threads |-> NewMem(ParDevice(t))]
    /\ \E sz \in [Threads -> ParSizes] : allocation_size = sz
    /\ \E g \in DriverGranularities : granularity = [t \in Threads |-> g]
    /\ pc = [t \in Threads |-> "alloc"]
    /\ ctx = [t \in Threads |-> {ParDevice(t)}]

\* The harness's order of calls on one region; ensure_context finds the
\* thread's context current.
ParStep(t) ==
    \/ allocate_device_memory(t)
    \/ hist[t] = << >> /\ CallCreateAndMap(t)
    \/ Len(hist[t]) = 1 /\ CallUnmapAndRelease(t)
    \/ Len(hist[t]) = 2 /\ AddressFree(t)
    \/ CtxGetCurrent(t)
    \/ set_cpu_affinity_for_gpu(t)
    \/ CreateChunk(t)
    \/ CreateLoopExit(t)
    \/ MapChunk(t)
    \/ MapLoopExit(t)
    \/ SetAccess(t)
    \/ UnmapChunk(t)
    \/ UnmapLoopExit(t)
    \/ ReleaseChunk(t)
    \/ ReleaseLoopExit(t)

NextPar == \E t \in Threads : ParStep(t)

SpecPar == InitPar /\ [][NextPar]_vars

(***************************************************************************)
(* Runs of main: its single thread goes over the regions in order, three   *)
(* times: the granularity queries (first pass), allocate_device_memory     *)
(* with verification (second pass), and the release loop.  The two regions *)
(* are t1 (first) and t2 (second).                                         *)
(***************************************************************************)
\* Positions at which main's second pass has dealt with a region, and at
\* which its release loop has.
AllocEnd == {"skipped", "alloc_failed", "allocated"}
MainEnd == {"passed", "unreleased", "freed", "free_failed"}

FirstPassDone(u) == pc[u] # "start"
SecondPassDone(u) == pc[u] \in AllocEnd \cup MainEnd \/ mem[u].allocated
ReleaseDone(u) == pc[u] \in MainEnd

\* The regions main's loops reach before region t.
Earlier(t) == IF t = "t1" THEN {} ELSE {"t1"}

\* Main's loops are at region t: each loop takes the regions in order, and
\* a loop starts when the loop before it is over.
MainAt(t) ==
    IF pc[t] = "start"
    THEN \A u \in Earlier(t) : FirstPassDone(u)
    ELSE IF ~SecondPassDone(t)
    THEN (\A u \in Threads : FirstPassDone(u)) /\ (\A u \in Earlier(t) : SecondPassDone(u))
    ELSE IF ~ReleaseDone(t)
    THEN (\A u \in Threads : SecondPassDone(u)) /\ (\A u \in Earlier(t) : ReleaseDone(u))
    ELSE FALSE

\* The regions are constructed (DeviceMemory(), device set by main), main
\* asks the same size for every device, and its calls of ensure_context have
\* made the first device's context current on the thread.
InitMain ==
    /\ InitCommon
    /\ mem = [t \in Threads |-> NewMem(ParDevice(t))]
    /\ \E sz \in ParSizes : allocation_size = [t \in Threads |-> sz]
    /\ granularity = [t \in Threads |-> 0]
    /\ pc = [t \in Threads |-> "start"]
    /\ ctx = [t \in Threads |-> {ParDevice("t1")}]

\* One step of main at region t; ensure_context finds a context current.
MainStep(t) ==
    \/ MainAt(t) /\ get_memory_granularity(t)
    \/ MainAt(t) /\ allocate_device_memory(t)
    \/ MainAt(t) /\ hist[t] = << >> /\ CallCreateAndMap(t)
    \/ MainAt(t) /\ VerifyCopyIn(t)
    \/ MainAt(t) /\ VerifyCopyOut(t)
    \/ MainAt(t) /\ ReleaseRegion(t)
    \/ MainAt(t) /\ Len(hist[t]) = 2 /\ AddressFree(t)
    \/ MainAt(t) /\ CtxGetCurrent(t)
    \/ MainAt(t) /\ set_cpu_affinity_for_gpu(t)
    \/ MainAt(t) /\ CreateChunk(t)
    \/ MainAt(t) /\ CreateLoopExit(t)
    \/ MainAt(t) /\ MapChunk(t)
    \/ MainAt(t) /\ MapLoopExit(t)
    \/ MainAt(t) /\ SetAccess(t)
    \/ MainAt(t) /\ UnmapChunk(t)
    \/ MainAt(t) /\ UnmapLoopExit(t)
    \/ MainAt(t) /\ ReleaseChunk(t)
    \/ MainAt(t) /\ ReleaseLoopExit(t)

NextMain == \E t \in Threads : MainStep(t)

SpecMain == InitMain /\ [][NextMain]_vars

(***************************************************************************)
(* Geometry runs: allocate_device_memory applied to sizes and              *)
(* granularities over the whole range of size_t.                           *)
(***************************************************************************)
GeomGranularities == {1, 4096, 65536, 2 * MiB, 3 * MiB, CHUNK_SIZE_MB * MiB,
                      2 * CHUNK_SIZE_MB * MiB}

GeomSizes ==
    ({k * MiB + d : k \in 0..MaxMiB, d \in {-1, 0, 1}}
       \cup {SizeModulus - k * MiB + d : k \in 0..MaxTop, d \in {-1, 0, 1}})
    \cap (1..SIZE_MAX)

InitGeom ==
    /\ InitCommon
    /\ mem = [t \in Threads |-> NewMem(0)]
    /\ \E sz \in GeomSizes :
          allocation_size = [t \in Threads |-> IF t = "t1" THEN sz ELSE 0]
    /\ \E g \in GeomGranularities :
          granularity = [t \in Threads |-> IF t = "t1" THEN g ELSE 0]
    /\ pc = [t \in Threads |-> IF t = "t1" THEN "alloc" ELSE "off"]
    /\ ctx = [t \in Threads |-> {}]

NextGeom == \E t \in Threads : allocate_device_memory(t)

SpecGeom == InitGeom /\ [][NextGeom]_vars

(***************************************************************************)
(* Properties.                                                             *)
(***************************************************************************)
\* allocate_device_memory has computed the aligned size of t's region.
Aligned(t) == pc[t] \in {"idle", "alloc_failed"}
\* ... and, the reservation having succeeded, its chunk layout.
LaidOut(t) == pc[t] = "idle" /\ ncalls[t] = 0

\* Neither rounding of allocate_device_memory wraps around in size_t.
NoWrap(size, g) ==
    /\ size + g - 1 <= SIZE_MAX
    /\ AlignUp(size, g) + AlignedChunkSize(g) - 1 <= SIZE_MAX

\* C7 as stated: for EVERY size >= 1 and granularity >= 1 the aligned size is
\* a multiple of the granularity, is at least the size (the smallest such
\* multiple), and the chunk sizes sum to it.
C7_AllSizes ==
    \A t \in Threads :
        (Aligned(t) /\ mem[t].size >= 1 /\ granularity[t] >= 1) =>
            /\ mem[t].alignedSize % granularity[t] = 0
            /\ mem[t].alignedSize >= mem[t].size
            /\ mem[t].alignedSize - mem[t].size < granularity[t]
            /\ LaidOut(t) => SumSeq(mem[t].chunk_sizes) = mem[t].alignedSize

\* C7 (amended): for every size >= 1 and granularity >= 1 whose roundings do
\* not wrap around in size_t, the aligned size is a multiple of the
\* granularity, is the smallest such multiple that is at least the size, and
\* the chunk sizes sum exactly to it.
C7_AlignedGeometry ==
    \A t \in Threads :
        (Aligned(t) /\ mem[t].size >= 1 /\ granularity[t] >= 1
                    /\ NoWrap(mem[t].size, granularity[t])) =>
            /\ mem[t].alignedSize % granularity[t] = 0
            /\ mem[t].alignedSize >= mem[t].size
            /\ mem[t].alignedSize - mem[t].size < granularity[t]
            /\ LaidOut(t) => SumSeq(mem[t].chunk_sizes) = mem[t].alignedSize

\* C7 witness: one byte at a granularity of 2 MiB became one chunk of 2 MiB.
C7_Witness ==
    /\ LaidOut("t1")
    /\ mem["t1"].size = 1
    /\ granularity["t1"] = 2 * MiB
    /\ mem["t1"].alignedSize = 2 * MiB
    /\ mem["t1"].chunk_sizes = << 2 * MiB >>

\* The shape C8 claims of a layout of alignedSize a with chunk size hint h.
PartitionShape(cs, a, h) ==
    LET n == Len(cs)
    IN  /\ n * h >= a /\ (n - 1) * h < a          \* n = ceil(a / h)
        /\ \A k \in 1..(n - 1) : cs[k] = h
        /\ n >= 1
        /\ cs[n] = a - (n - 1) * h
        /\ cs[n] > 0
        /\ cs[n] <= h

\* C8 as stated: for EVERY alignedSize > 0 the layout has ceil(alignedSize /
\* hint) chunks, all of the hint's size but the last, which holds the
\* remainder, > 0 and <= hint.
C8_AllSizes ==
    \A t \in Threads :
        (LaidOut(t) /\ mem[t].alignedSize > 0) =>
            PartitionShape(mem[t].chunk_sizes, mem[t].alignedSize,
                           AlignedChunkSize(granularity[t]))

\* C8 (amended): for every alignedSize > 0 with alignedSize + hint - 1 not
\* wrapping around in size_t, the layout has ceil(alignedSize / hint) chunks,
\* every chunk but the last has the hint's size, and the last chunk has
\* alignedSize - (numChunks - 1) * hint bytes, which is > 0 and <= hint.
C8_PartitionShape ==
    \A t \in Threads :
        (LaidOut(t) /\ mem[t].alignedSize > 0
            /\ mem[t].alignedSize + AlignedChunkSize(granularity[t]) - 1 <= SIZE_MAX) =>
            PartitionShape(mem[t].chunk_sizes, mem[t].alignedSize,
                           AlignedChunkSize(granularity[t]))

\* C8 witness: 300 MiB with a hint of 128 MiB became chunks of 128, 128, 44 MiB.
C8_Witness ==
    /\ LaidOut("t1")
    /\ mem["t1"].alignedSize = 300 * MiB
    /\ AlignedChunkSize(granularity["t1"]) = 128 * MiB
    /\ mem["t1"].chunk_sizes = << 128 * MiB, 128 * MiB, 44 * MiB >>

(***************************************************************************)
(* Life-cycle properties (create_and_map, unmap_and_release).              *)
(***************************************************************************)
\* The calls named op of a log, in the order they were issued.
Ops(log, op) == SelectSeq(log, LAMBDA c : c.op = op)

LastCall(t) == calls[t][Len(calls[t])]
LastRun(t) == hist[t][Len(hist[t])]

\* C indices of the chunks of t's region.
Chunks(t) == 0 .. (mem[t].num_chunks - 1)
\* The handle slot, size and address of chunk k (C index) of t's region.
HandleOf(t, k) == mem[t].p_memHandle[k + 1]
SizeOf(t, k) == mem[t].chunk_sizes[k + 1]
ChunkAddr(t, k) == mem[t].d_mem + PrefixSum(mem[t].chunk_sizes, k)

\* Chunk k's range is mapped; it is mapped with the handle in its slot.
ChunkMapped(t, k) ==
    \E m \in mapped : m.addr = ChunkAddr(t, k) /\ m.size = SizeOf(t, k)
MappedWithHandle(t, k) ==
    [addr |-> ChunkAddr(t, k), size |-> SizeOf(t, k), h |-> HandleOf(t, k)] \in mapped

\* Nothing is mapped in the range reserved for t's region.
RegionUnmapped(t) ==
    \A m \in mapped : ~Overlaps(mem[t].d_mem, mem[t].alignedSize, m.addr, m.size)
\* No access grant covers any part of the range.
RegionInaccessible(t) ==
    \A g \in access : ~Overlaps(mem[t].d_mem, mem[t].alignedSize, g.addr, g.size)

\* Entry point f has just returned to the caller; calls[t] is its log.
Returned(t, f) == pc[t] = "idle" /\ hist[t] # << >> /\ LastRun(t).fn = f

\* create_and_map has just returned because call op failed for chunk k.
FailedAt(t, op, k) ==
    /\ Returned(t, "create_and_map")
    /\ calls[t] # << >>
    /\ LastCall(t).op = op /\ LastCall(t).idx = k /\ ~LastCall(t).ok

\* The two runs that ended last were f1 then f2, and f1 met no driver error.
RanInTurn(t, f1, f2) ==
    /\ Returned(t, f2)
    /\ Len(hist[t]) >= 2
    /\ hist[t][Len(hist[t]) - 1] = [fn |-> f1, ok |-> TRUE]

\* C1: when create_and_map and then unmap_and_release have run with every
\* driver call succeeding, no chunk of the region is mapped, every handle
\* create_and_map put into the handle array is released, and the driver has
\* no reason to refuse freeing the reserved range.
C1_RoundTrip ==
    \A t \in Threads :
        (RanInTurn(t, "create_and_map", "unmap_and_release") /\ LastRun(t).ok) =>
            /\ RegionUnmapped(t)
            /\ \A k \in Chunks(t) : HandleOf(t, k) \notin live
            /\ FreeOk(mem[t].d_mem, mem[t].alignedSize)

\* C1 witness: after such a round trip of a 3-chunk region the range was freed.
C1_Witness ==
    /\ pc["t1"] = "freed"
    /\ mem["t1"].num_chunks = 3
    /\ hist["t1"] = << [fn |-> "create_and_map", ok |-> TRUE],
                       [fn |-> "unmap_and_release", ok |-> TRUE] >>
    /\ reserved = {}

\* C2: when chunk creation fails at index k, chunks 0..k-1 hold the live
\* handles this run created, no creation was attempted beyond k, no mapping
\* was attempted and no chunk of the run is mapped, and no access grant was
\* attempted.
C2_CreateFailure ==
    \A t \in Threads : \A k \in Chunks(t) :
        FailedAt(t, "cuMemCreate", k) =>
            /\ \A j \in 0..(k - 1) :
                  /\ HandleOf(t, j) \in live
                  /\ Call("cuMemCreate", j, 0, SizeOf(t, j), HandleOf(t, j), TRUE)
                        = Ops(calls[t], "cuMemCreate")[j + 1]
            /\ Len(Ops(calls[t], "cuMemCreate")) = k + 1
            /\ Ops(calls[t], "cuMemMap") = << >>
            /\ \A j \in 0..(k - 1) : \A m \in mapped : m.h # HandleOf(t, j)
            /\ ncalls[t] = 1 => RegionUnmapped(t)
            /\ Ops(calls[t], "cuMemSetAccess") = << >>
            /\ ncalls[t] = 1 => RegionInaccessible(t)

\* C2 witness: creation failed at index 1 of 3 (a chunk before, a chunk after).
C2_Witness == FailedAt("t1", "cuMemCreate", 1) /\ mem["t1"].num_chunks = 3

\* C3: when mapping fails at index k, chunks 0..k-1 are mapped with their
\* handles, the handles of chunks k..n-1 are mapped nowhere (in a fresh region
\* their ranges are unmapped), all n handles are live and no access grant was
\* attempted.
C3_MapFailure ==
    \A t \in Threads : \A k \in Chunks(t) :
        FailedAt(t, "cuMemMap", k) =>
            /\ \A j \in 0..(k - 1) : MappedWithHandle(t, j)
            /\ \A j \in k..(mem[t].num_chunks - 1) :
                  /\ \A m \in mapped : m.h # HandleOf(t, j)
                  /\ ncalls[t] = 1 => ~ChunkMapped(t, j)
            /\ \A j \in Chunks(t) : HandleOf(t, j) \in live
            /\ Ops(calls[t], "cuMemRelease") = << >>
            /\ Ops(calls[t], "cuMemSetAccess") = << >>
            /\ ncalls[t] = 1 => RegionInaccessible(t)

\* C3 witness: mapping failed at index 1 of 3.
C3_Witness == FailedAt("t1", "cuMemMap", 1) /\ mem["t1"].num_chunks = 3

\* C4: when the access grant fails, every chunk is still mapped with its live
\* handle, the run has issued no unmap and no release, and the region is not
\* accessible.
C4_AccessFailure ==
    \A t \in Threads :
        FailedAt(t, "cuMemSetAccess", 0) =>
            /\ \A j \in Chunks(t) : MappedWithHandle(t, j) /\ HandleOf(t, j) \in live
            /\ Ops(calls[t], "cuMemUnmap") = << >>
            /\ Ops(calls[t], "cuMemRelease") = << >>
            /\ RegionInaccessible(t)

\* C4 witness: the grant failed for a fully mapped 3-chunk region.
C4_Witness ==
    /\ FailedAt("t1", "cuMemSetAccess", 0)
    /\ mem["t1"].num_chunks = 3
    /\ Len(Ops(calls["t1"], "cuMemMap")) = 3

\* C5 as stated: within one invocation of an entry point, a failed driver
\* call of any kind (context, creation, mapping, access, unmap, release) is
\* the last driver call the invocation issues.
C5_HaltOnFirstFailure ==
    \A t \in Threads :
        LET d == DriverCalls(calls[t])
        IN  \A j \in 1..Len(d) : ~d[j].ok => j = Len(d)

\* What the code does keep: a failed creation, mapping, access grant, unmap or
\* release is the last driver call of its invocation.
HaltOnChunkFailure ==
    \A t \in Threads :
        LET d == DriverCalls(calls[t])
        IN  \A j \in 1..Len(d) :
              (~d[j].ok /\ d[j].op \in {"cuMemCreate", "cuMemMap", "cuMemSetAccess",
                                        "cuMemUnmap", "cuMemRelease"}) => j = Len(d)

\* C6: a second unmap_and_release right after one that met no error ends on
\* a failed driver call, issues no release at all, and leaves every handle
\* of the region released.
C6_SecondTeardown ==
    \A t \in Threads :
        RanInTurn(t, "unmap_and_release", "unmap_and_release") =>
            /\ ~LastRun(t).ok
            /\ calls[t] # << >> /\ ~LastCall(t).ok
            /\ Ops(calls[t], "cuMemRelease") = << >>
            /\ \A k \in Chunks(t) : HandleOf(t, k) \notin live

\* C6 witness: create_and_map, unmap_and_release, unmap_and_release again.
C6_Witness ==
    /\ pc["t1"] = "idle"
    /\ Len(hist["t1"]) = 3
    /\ hist["t1"][1] = [fn |-> "create_and_map", ok |-> TRUE]
    /\ hist["t1"][2] = [fn |-> "unmap_and_release", ok |-> TRUE]
    /\ hist["t1"][3].fn = "unmap_and_release"
    /\ LastCall("t1").op = "cuMemUnmap"

\* C9: at every point of create_and_map the mapping calls issued so far are
\* for chunks 0, 1, 2, ... in that order, chunk i at d_mem + sum(chunk_sizes
\* [0..i)) with its own size; each successful one starts where the one before
\* ends, so the mapped ranges are contiguous and disjoint, and once all n
\* have succeeded they cover exactly [d_mem, d_mem + sum(chunk_sizes)).
C9_MapOrder ==
    \A t \in Threads :
        fn[t] = "create_and_map" =>
            LET maps == Ops(calls[t], "cuMemMap")
                n    == mem[t].num_chunks
                sum  == SumSeq(mem[t].chunk_sizes)
            IN  /\ Len(maps) <= n
                /\ \A j \in 1..Len(maps) :
                      /\ maps[j].idx = j - 1
                      /\ maps[j].addr = ChunkAddr(t, j - 1)
                      /\ maps[j].size = SizeOf(t, j - 1)
                      /\ j < Len(maps) => maps[j].ok
                      /\ maps[j].ok => MappedWithHandle(t, j - 1)
                      /\ j = 1 => maps[j].addr = mem[t].d_mem
                      /\ j > 1 => maps[j].addr = maps[j - 1].addr + maps[j - 1].size
                /\ (Len(maps) = n /\ n > 0 /\ maps[n].ok) =>
                      /\ maps[n].addr + maps[n].size = mem[t].d_mem + sum
                      /\ SumSizes(MappingsIn(mem[t].d_mem, sum)) = sum

\* C9 witness: all three chunks of a region are mapped, the grant is next.
C9_Witness ==
    /\ pc["t1"] = "access"
    /\ mem["t1"].num_chunks = 3
    /\ \A k \in 0..2 : MappedWithHandle("t1", k)

\* C10: an invocation of create_and_map issues at most one access grant; the
\* grant comes last, after a successful mapping call for each chunk 0..n-1,
\* and is for the whole range [d_mem, d_mem + sum(chunk_sizes)) and the
\* region's device.
C10_AccessOnce ==
    \A t \in Threads :
        fn[t] = "create_and_map" =>
            LET acc  == Ops(calls[t], "cuMemSetAccess")
                maps == Ops(calls[t], "cuMemMap")
            IN  /\ Len(acc) <= 1
                /\ Len(acc) = 1 =>
                      /\ LastCall(t) = acc[1]
                      /\ Len(maps) = mem[t].num_chunks
                      /\ \A j \in 1..Len(maps) : maps[j].ok /\ maps[j].idx = j - 1
                      /\ \A k \in Chunks(t) : MappedWithHandle(t, k)
                      /\ acc[1].addr = mem[t].d_mem
                      /\ acc[1].size = SumSeq(mem[t].chunk_sizes)
                      /\ acc[1].ok =>
                            [addr |-> mem[t].d_mem, size |-> SumSeq(mem[t].chunk_sizes),
                             device |-> mem[t].device] \in access
                /\ (Len(acc) = 0 /\ ncalls[t] = 1) => RegionInaccessible(t)

\* C10 witness: a 3-chunk region got its one grant.
C10_Witness ==
    /\ Returned("t1", "create_and_map")
    /\ LastRun("t1").ok
    /\ mem["t1"].num_chunks = 3
    /\ Len(Ops(calls["t1"], "cuMemSetAccess")) = 1
    /\ access # {}

\* C11: at every point of unmap_and_release the unmap calls issued so far are
\* for chunks 0, 1, 2, ... in that order, each chunk once, chunk i at d_mem +
\* sum(chunk_sizes[0..i)) (the offset create_and_map maps it at) with its own
\* size; a release call is issued only after all n chunks were unmapped with
\* success; the release calls are for chunks 0, 1, 2, ... in that order, each
\* chunk at most once, each with the handle of its slot.
C11_TeardownOrder ==
    \A t \in Threads :
        fn[t] = "unmap_and_release" =>
            LET unmaps == Ops(calls[t], "cuMemUnmap")
                rels   == Ops(calls[t], "cuMemRelease")
                n      == mem[t].num_chunks
            IN  /\ Len(unmaps) <= n
                /\ \A j \in 1..Len(unmaps) :
                      /\ unmaps[j].idx = j - 1
                      /\ unmaps[j].addr = ChunkAddr(t, j - 1)
                      /\ unmaps[j].size = SizeOf(t, j - 1)
                      /\ j < Len(unmaps) => unmaps[j].ok
                /\ Len(rels) <= n
                /\ rels # << >> =>
                      /\ Len(unmaps) = n
                      /\ \A j \in 1..n : unmaps[j].ok
                      /\ \A j \in 1..Len(calls[t]) : \A k \in 1..Len(calls[t]) :
                            (calls[t][j].op = "cuMemUnmap"
                               /\ calls[t][k].op = "cuMemRelease") => j < k
                /\ \A j \in 1..Len(rels) :
                      /\ rels[j].idx = j - 1
                      /\ rels[j].h = HandleOf(t, j - 1)
                      /\ j < Len(rels) => rels[j].ok
                /\ pc[t] = "release" =>
                      /\ Len(unmaps) = n
                      /\ \A k \in Chunks(t) : ~ChunkMapped(t, k)

\* C11 witness: a 3-chunk region was torn down by three unmaps followed by
\* three releases.
C11_Witness ==
    /\ Returned("t1", "unmap_and_release")
    /\ LastRun("t1").ok
    /\ mem["t1"].num_chunks = 3
    /\ Len(Ops(calls["t1"], "cuMemUnmap")) = 3
    /\ Len(Ops(calls["t1"], "cuMemRelease")) = 3

(***************************************************************************)
(* Properties of ensure_context (context runs).                            *)
(***************************************************************************)
\* main's call number k of ensure_context has returned.
EnsureReturned(t, k) ==
    /\ k >= 1 /\ k <= Len(hist[t])
    /\ hist[t][k].fn = "ensure_context"
    /\ k = Len(hist[t]) => pc[t] = "main"

\* C12 as stated: whenever ensure_context(device) has returned without having
\* reported an error, the context current on the calling thread is that
\* device's context, whatever was current before the call.
C12_BindsDevice ==
    \A t \in Threads :
        (EnsureReturned(t, Len(hist[t])) /\ LastRun(t).ok) =>
            ctx[t] = {LastRun(t).device}

\* What the code does keep: a call that returns without error when no context
\* was current before it leaves the device's context current, and a call made
\* while a context is current leaves that context current.
EnsureFromCurrent ==
    \A t \in Threads :
        (EnsureReturned(t, Len(hist[t])) /\ LastRun(t).ok) =>
            IF Len(LastRun(t).calls) > 1
            THEN ctx[t] = {LastRun(t).device}
            ELSE ctx[t] # {}

Bound(t) ==
    /\ pc[t] = "create"
    /\ calls[t] # << >>
    /\ LastCall(t).op = "sched_setaffinity" /\ LastCall(t).ok

\* C14: for every device id d a successful bind leaves the thread with
\* exactly CPUs 0..47 when d <= 3 and exactly CPUs 48..95 otherwise; the set
\* of a device d <= 3 and the set of a device d > 3 have no CPU in common.
C14_StaticPartition ==
    /\ \A t \in Threads :
          Bound(t) =>
              IF args[t].device <= 3
              THEN mask[t] = 0..47
              ELSE mask[t] = 48..95
    /\ \A t, u \in Threads :
          (Bound(t) /\ Bound(u) /\ args[t].device <= 3 /\ args[u].device > 3) =>
              mask[t] \cap mask[u] = {}

\* C14 witness: one thread is bound for device 2 and has the lower half, the
\* other is bound for device 5 and has the upper half.
C14_Witness ==
    /\ Bound("t1") /\ args["t1"].device = 2 /\ mask["t1"] = 0..47
    /\ Bound("t2") /\ args["t2"].device = 5 /\ mask["t2"] = 48..95

\* create_and_map has issued a sched_setaffinity call that failed.
BindFailed(t) ==
    /\ fn[t] = "create_and_map"
    /\ Ops(calls[t], "sched_setaffinity") # << >>
    /\ ~Ops(calls[t], "sched_setaffinity")[1].ok

\* C15: the step of create_and_map that calls sched_setaffinity always goes
\* on to the creation loop at chunk 0 and changes nothing of the region or the
\* driver, and when the call fails it leaves the thread's affinity mask as it
\* was; a create_and_map whose bind failed and whose driver calls succeed
\* ends as after a successful bind, with every chunk mapped with its live
\* handle and the range accessible to the device.
C15_AffinityNonFatal ==
    /\ [][\A t \in Threads :
            (pc[t] = "affinity" /\ pc'[t] # "affinity") =>
                /\ pc'[t] = "create"
                /\ i'[t] = 0
                /\ ~calls'[t][Len(calls'[t])].ok => mask'[t] = mask[t]
                /\ UNCHANGED << mem, args, hist, ctx, driverVars >>]_vars
    /\ [](\A t \in Threads :
            (BindFailed(t) /\ Returned(t, "create_and_map") /\ LastRun(t).ok) =>
                /\ LastCall(t).op = "cuMemSetAccess"
                /\ \A k \in Chunks(t) :
                      MappedWithHandle(t, k) /\ HandleOf(t, k) \in live
                /\ [addr |-> mem[t].d_mem, size |-> mem[t].alignedSize,
                     device |-> mem[t].device] \in access)

\* C15 witness: the bind failed, the mask is the initial one, and
\* create_and_map created, mapped and made accessible all three chunks.
C15_Witness ==
    /\ BindFailed("t1")
    /\ Returned("t1", "create_and_map") /\ LastRun("t1").ok
    /\ ncalls["t1"] = 1
    /\ mask["t1"] = AllCpus
    /\ mem["t1"].num_chunks = 3
    /\ \A k \in 0..2 : MappedWithHandle("t1", k)
    /\ access # {}

(***************************************************************************)
(* Frame of the core.                                                      *)
(***************************************************************************)
\* Positions of a thread inside ensure_context, set_cpu_affinity_for_gpu,
\* create_and_map and unmap_and_release.
CorePcs == {"ctx_get", "ctx_retain", "ctx_set", "affinity", "create", "map",
            "access", "unmap", "release"}

\* C16: no step of create_and_map or unmap_and_release, on any path, changes
\* the caller's chunk_sizes, num_chunks, virtual base (or any other field of
\* the region's descriptor) or the number of slots of the handle array; a
\* step changes the handle value of a slot only when it is create_and_map's
\* cuMemCreate call for that very chunk, and no step of unmap_and_release
\* changes any handle value.
C16_Frame ==
    [][\A t \in Threads :
         pc[t] \in CorePcs =>
             /\ mem'[t].chunk_sizes = mem[t].chunk_sizes
             /\ mem'[t].num_chunks = mem[t].num_chunks
             /\ mem'[t].d_mem = mem[t].d_mem
             /\ mem'[t].alignedSize = mem[t].alignedSize
             /\ mem'[t].size = mem[t].size
             /\ mem'[t].device = mem[t].device
             /\ mem'[t].allocated = mem[t].allocated
             /\ DOMAIN mem'[t].p_memHandle = DOMAIN mem[t].p_memHandle
             /\ \A k \in DOMAIN mem[t].p_memHandle :
                   mem'[t].p_memHandle[k] # mem[t].p_memHandle[k] =>
                       /\ fn[t] = "create_and_map"
                       /\ pc[t] = "create"
                       /\ k = i[t] + 1
                       /\ calls'[t][Len(calls'[t])].op = "cuMemCreate"
                       /\ calls'[t][Len(calls'[t])].idx = k - 1
             /\ fn[t] = "unmap_and_release" =>
                   mem'[t].p_memHandle = mem[t].p_memHandle]_vars

\* C16 witness: create_and_map and unmap_and_release have run on a 3-chunk
\* region; the descriptor still has the layout allocate_device_memory gave it
\* and the three slots still hold the (now released) handles.
C16_Witness ==
    /\ Returned("t1", "unmap_and_release") /\ LastRun("t1").ok
    /\ mem["t1"].num_chunks = 3
    /\ mem["t1"].chunk_sizes = ChunkSizes(mem["t1"].alignedSize, granularity["t1"])
    /\ Len(mem["t1"].p_memHandle) = 3
    /\ \A k \in 0..2 : HandleOf("t1", k) # 0 /\ HandleOf("t1", k) \notin live

(***************************************************************************)
(* Independence of concurrent regions.                                     *)
(***************************************************************************)
\* Whether the driver can serve the call thread t is about to make.
NextCallCan(t) ==
    LET k == i[t]
        inLoop == k < args[t].num_chunks /\ k < Len(mem[t].chunk_sizes)
    IN  CASE pc[t] = "alloc"   -> ReserveOk(AlignUp(allocation_size[t], granularity[t]))
          [] pc[t] = "create"  -> inLoop => SizeOf(t, k) > 0
          [] pc[t] = "map"     -> inLoop => MapOk(MapAddr(t), SizeOf(t, k), HandleOf(t, k))
          [] pc[t] = "access"  -> SetAccessOk(args[t].d_mem, args[t].size)
          [] pc[t] = "unmap"   -> inLoop => UnmapOk(UnmapAddr(t), SizeOf(t, k))
          [] pc[t] = "release" -> inLoop => ReleaseOk(HandleOf(t, k))
          [] pc[t] = "idle"    -> FreeOk(mem[t].d_mem, mem[t].alignedSize)
          [] OTHER             -> TRUE

\* The size of the range thread t holds: none before its reservation has
\* succeeded (mem.d_mem is not set then) and none after it has freed the
\* range (the driver may hand the addresses out again).
RangeSize(t) ==
    IF pc[t] \in {"alloc", "alloc_failed", "freed"} THEN 0 ELSE mem[t].alignedSize

\* The state of thread t's region: the thread's position and locals, the
\* caller's descriptor, the thread's context and affinity, what the driver
\* holds for the region (live handles of its slots, mappings and grants in
\* its range, its reservation), and whether the driver can serve the
\* thread's next call.
RegionView(t) ==
    [pc |-> pc[t], fn |-> fn[t], args |-> args[t], i |-> i[t],
     allocated_size |-> allocated_size[t], pctx |-> pctx[t], calls |-> calls[t],
     hist |-> hist[t], ncalls |-> ncalls[t], mem |-> mem[t], ctx |-> ctx[t],
     mask |-> mask[t],
     live |-> {k \in 1..Len(mem[t].p_memHandle) : mem[t].p_memHandle[k] \in live},
     mapped |-> {m \in mapped :
                   Overlaps(mem[t].d_mem, RangeSize(t), m.addr, m.size)},
     access |-> {g \in access :
                   Overlaps(mem[t].d_mem, RangeSize(t), g.addr, g.size)},
     reserved |-> {r \in reserved :
                   Overlaps(mem[t].d_mem, RangeSize(t), r.base, r.size)},
     can |-> NextCallCan(t)]

\* Thread u takes the step.
Moved(u) == pc'[u] # pc[u] \/ calls'[u] # calls[u] \/ i'[u] # i[u]

\* Both entry points have run on t's region and met no driver error.
RoundTripDone(t) ==
    /\ pc[t] \in {"idle", "freed", "free_failed"}
    /\ hist[t] = << [fn |-> "create_and_map", ok |-> TRUE],
                    [fn |-> "unmap_and_release", ok |-> TRUE] >>

\* C17: when two threads each run create_and_map then unmap_and_release on
\* a region of their own for different devices, under every interleaving of
\* their steps no step of one thread changes the state of the other
\* thread's region or what the driver answers to the other thread's next
\* call, so each region goes through the states it goes through when its
\* thread runs alone; a region whose two runs met no error ends, as alone,
\* with every handle released and, until its range is freed, with nothing
\* mapped or accessible in the range and the range free to be released.
C17_NoSharedState ==
    /\ [][\A t \in Threads : \A u \in Threads \ {t} :
            Moved(u) => RegionView(t)' = RegionView(t)]_vars
    /\ [](\A t \in Threads :
            RoundTripDone(t) =>
                /\ \A k \in Chunks(t) : HandleOf(t, k) \notin live
                /\ pc[t] # "freed" =>
                      /\ RegionUnmapped(t)
                      /\ RegionInaccessible(t)
                      /\ FreeOk(mem[t].d_mem, mem[t].alignedSize))

\* C17 witness: both threads are done with their round trip and have freed
\* their ranges, the second thread having created a handle before the first
\* thread created its last one (their driver calls interleaved).
C17_Witness ==
    /\ \A t \in Threads : RoundTripDone(t) /\ pc[t] = "freed"
    /\ mem["t1"].num_chunks = 2 /\ mem["t2"].num_chunks = 2
    /\ HandleOf("t1", 0) < HandleOf("t2", 0)
    /\ HandleOf("t2", 0) < HandleOf("t1", 1)
    /\ mem["t1"].device # mem["t2"].device
    /\ live = {} /\ mapped = {} /\ reserved = {}

(***************************************************************************)
(* The caller's preconditions.                                             *)
(***************************************************************************)
\* The step invokes create_and_map on thread t's region.
InvokesCreateAndMap(t) ==
    ncalls'[t] = ncalls[t] + 1 /\ fn'[t] = "create_and_map"

\* A precondition step of thread t has failed: the granularity query (main
\* then holds granularity 0 for the device) or the reservation.
PreconditionFailed(t) == pc[t] \in {"skipped", "alloc_failed"}

\* C18: create_and_map is invoked only for a device whose granularity query
\* succeeded (granularity # 0) and only on a region whose range
\* [d_mem, d_mem + alignedSize) the driver has reserved; after a failed
\* granularity query or a failed reservation the caller makes no call of the
\* core for the region, then or later, and no chunk is created.
C18_NoCreateAfterFailure ==
    /\ [][\A t \in Threads :
            InvokesCreateAndMap(t) =>
                /\ granularity[t] # 0
                /\ [base |-> mem[t].d_mem, size |-> mem[t].alignedSize] \in reserved]_vars
    /\ [][\A t \in Threads : PreconditionFailed(t) => pc'[t] = pc[t]]_vars
    /\ [](\A t \in Threads :
            /\ (pc[t] = "skipped") = (pc[t] \notin {"start", "off"} /\ granularity[t] = 0)
            /\ PreconditionFailed(t) =>
                  /\ ncalls[t] = 0 /\ fn[t] = "none" /\ calls[t] = << >>
                  /\ live = {} /\ mapped = {}
                  /\ mem[t].p_memHandle = << >>)

\* C18 witness: the granularity is known, the reservation has failed, and
\* the region has seen no call of the core.
C18_Witness ==
    /\ pc["t1"] = "alloc_failed"
    /\ granularity["t1"] # 0
    /\ reserved = {}
    /\ ncalls["t1"] = 0 /\ fn["t1"] = "none"

(***************************************************************************)
(* Order of the calls of create_and_map.                                   *)
(***************************************************************************)
ContextOps == {"cuCtxGetCurrent", "cuDevicePrimaryCtxRetain", "cuCtxSetCurrent"}
ChunkOps == {"cuMemCreate", "cuMemMap", "cuMemSetAccess"}

\* C19: the calls of an invocation of create_and_map come in this order:
\* first the calls of ensure_context, then the one call that binds the CPU
\* affinity, then the creation calls for chunks 0, 1, 2, ... (each only after
\* the one before it succeeded), then, only once all n handles have been
\* created, the mapping calls for chunks 0, 1, 2, ... (each only after the one
\* before it succeeded).
C19_Sequential ==
    \A t \in Threads :
        fn[t] = "create_and_map" =>
            LET log     == calls[t]
                creates == Ops(log, "cuMemCreate")
                maps    == Ops(log, "cuMemMap")
                binds   == Ops(log, "sched_setaffinity")
                n       == mem[t].num_chunks
            IN  /\ log # << >> => log[1].op = "cuCtxGetCurrent"
                /\ \A j \in 1..Len(log) : \A k \in 1..(j - 1) :
                      /\ log[j].op \in ContextOps => log[k].op \in ContextOps
                      /\ log[j].op = "sched_setaffinity" => log[k].op \in ContextOps
                      /\ log[j].op = "cuMemCreate" => log[k].op \notin {"cuMemMap", "cuMemSetAccess"}
                      /\ log[j].op = "cuMemMap" => log[k].op # "cuMemSetAccess"
                /\ Len(binds) <= 1
                /\ \A j \in 1..Len(log) :
                      log[j].op \in ChunkOps =>
                          \E k \in 1..(j - 1) : log[k].op = "sched_setaffinity"
                /\ pc[t] \in {"create", "map", "access"} => Len(binds) = 1
                /\ Len(creates) <= n
                /\ \A j \in 1..Len(creates) :
                      /\ creates[j].idx = j - 1
                      /\ j < Len(creates) => creates[j].ok
                /\ maps # << >> =>
                      /\ Len(creates) = n
                      /\ \A j \in 1..n : creates[j].ok /\ creates[j].h = HandleOf(t, j - 1)
                /\ Len(maps) <= n
                /\ \A j \in 1..Len(maps) :
                      /\ maps[j].idx = j - 1
                      /\ j < Len(maps) => maps[j].ok

\* C19 witness: in a 3-chunk region all three handles are created and chunks
\* 0 and 1 are mapped; chunk 2 is next.
C19_Witness ==
    /\ fn["t1"] = "create_and_map"
    /\ pc["t1"] = "map" /\ i["t1"] = 2
    /\ mem["t1"].num_chunks = 3
    /\ Len(Ops(calls["t1"], "cuMemCreate")) = 3
    /\ Len(Ops(calls["t1"], "cuMemMap")) = 2
    /\ Len(Ops(calls["t1"], "sched_setaffinity")) = 1
    /\ calls["t1"][1].op = "cuCtxGetCurrent"

(***************************************************************************)
(* Handles of mapped chunks.                                               *)
(***************************************************************************)
\* C20: in every state reached by any sequence of create_and_map and
\* unmap_and_release calls on a region, with any driver call allowed to
\* fail, every mapping is of a handle that is live: a handle the driver has
\* created (not the empty slot value, not a value it never handed out) and
\* has not released; so every chunk of the region that is mapped is mapped
\* with a live handle, and no handle has been released under a mapping.
C20_MappedHasLiveHandle ==
    /\ \A m \in mapped :
          /\ m.h \in live
          /\ m.h >= 1 /\ m.h < nextHandle
    /\ \A t \in Threads : \A k \in 0..(Len(mem[t].chunk_sizes) - 1) :
          ChunkMapped(t, k) =>
              \E m \in mapped :
                  /\ m.addr = ChunkAddr(t, k) /\ m.size = SizeOf(t, k)
                  /\ m.h \in live

\* C20 witness: unmap_and_release failed at chunk 1 of 3; chunk 0 is
\* unmapped, chunks 1 and 2 are still mapped, and all three handles are
\* live.
C20_Witness ==
    /\ Returned("t1", "unmap_and_release")
    /\ mem["t1"].num_chunks = 3
    /\ LastCall("t1").op = "cuMemUnmap" /\ LastCall("t1").idx = 1
    /\ ~LastCall("t1").ok
    /\ ~ChunkMapped("t1", 0)
    /\ MappedWithHandle("t1", 1) /\ MappedWithHandle("t1", 2)
    /\ \A k \in 0..2 : HandleOf("t1", k) \in live

(***************************************************************************)
(* Teardown of a region whose create_and_map halted.                       *)
(***************************************************************************)
\* A step in which the caller calls unmap_and_release for t's region.
CallsTeardown(t) == fn'[t] = "unmap_and_release" /\ ncalls'[t] = ncalls[t] + 1

\* The chunks a create_and_map that halted at call op for chunk k had mapped
\* and the handles it had created: a failed creation at k leaves handles
\* 0..k-1 and no mapping, a failed mapping at k leaves all n handles and
\* chunks 0..k-1 mapped.
MappedAtHalt(t, op, k) == IF op = "cuMemMap" THEN k ELSE 0
CreatedAtHalt(t, op, k) == IF op = "cuMemMap" THEN mem[t].num_chunks ELSE k

\* unmap_and_release is the second invocation on t's region (running or
\* returned), called with the region's full arrays, and as far as it has
\* got it has dealt with a region of which chunks 0..m-1 were mapped and
\* handles 0..c-1 created: its unmap calls are for chunks 0, 1, ... up to at
\* most chunk m, the first never-mapped one; the ones that succeeded are for
\* chunks below m and the one for chunk m failed; of the chunks below m
\* those not yet unmapped are mapped, no chunk from m on is; it has not
\* reached the release loop and has issued no release; the live handles are
\* exactly the c handles created; and when it has returned, it returned on a
\* failed unmap, the one for chunk m unless the driver failed to unmap a
\* chunk that is mapped.
HaltedTeardown(t, m, c) ==
    LET unmaps == Ops(calls[t], "cuMemUnmap")
        done   == Len(SelectSeq(unmaps, LAMBDA u : u.ok))
    IN  /\ ncalls[t] = 2
        /\ fn[t] = "unmap_and_release"
        /\ args[t] = CallArgs(mem[t])
        /\ Len(unmaps) <= m + 1
        /\ \A j \in 1..Len(unmaps) :
              /\ unmaps[j].idx = j - 1
              /\ unmaps[j].ok => j <= m
              /\ j = m + 1 => ~unmaps[j].ok
        /\ \A j \in Chunks(t) : ChunkMapped(t, j) <=> (done <= j /\ j < m)
        /\ pc[t] # "release"
        /\ Ops(calls[t], "cuMemRelease") = << >>
        /\ live = {HandleOf(t, j) : j \in 0..(c - 1)}
        /\ Cardinality(live) = c
        /\ pc[t] = "idle" =>
              /\ LastCall(t).op = "cuMemUnmap" /\ ~LastCall(t).ok
              /\ LastCall(t).idx <= m
              /\ LastCall(t).idx < m => ChunkMapped(t, LastCall(t).idx)

\* C21: with a driver that rejects unmapping a range that was never mapped
\* (UnmapOk), when unmap_and_release is called with the full arrays on a
\* fresh region whose create_and_map has just halted at index k during chunk
\* creation or mapping, then from the call on and until the caller's next
\* call HaltedTeardown holds for the chunks that were mapped and the handles
\* that were created: it unmaps only chunks that were mapped, is rejected at
\* the first never-mapped chunk and returns there, releases no handle, and
\* every handle create_and_map created stays live.
C21_TeardownAfterHalt ==
    [][\A t \in Threads : \A op \in {"cuMemCreate", "cuMemMap"} :
          /\ \A k \in Chunks(t) :
                (FailedAt(t, op, k) /\ ncalls[t] = 1 /\ CallsTeardown(t)) =>
                    HaltedTeardown(t, MappedAtHalt(t, op, k), CreatedAtHalt(t, op, k))'
          /\ \A m \in Chunks(t) : \A c \in 0..mem[t].num_chunks :
                (HaltedTeardown(t, m, c) /\ ncalls'[t] = ncalls[t]) =>
                    HaltedTeardown(t, m, c)']_vars

\* C21 witness: create_and_map halted at the mapping of chunk 1 of 3;
\* unmap_and_release unmapped chunk 0, was rejected for chunk 1 and
\* returned; nothing is mapped and the three handles are still live.
C21_Witness ==
    /\ mem["t1"].num_chunks = 3
    /\ HaltedTeardown("t1", 1, 3)
    /\ pc["t1"] = "idle"
    /\ ~hist["t1"][1].ok
    /\ Len(Ops(calls["t1"], "cuMemUnmap")) = 2
    /\ Ops(calls["t1"], "cuMemUnmap")[1].ok
    /\ mapped = {}
    /\ Cardinality(live) = 3

\* A second case of C21: create_and_map halted at the creation of chunk 2 of
\* 3; unmap_and_release was rejected for chunk 0 and returned; the two
\* handles created are still live.
TeardownAfterCreateHalt ==
    /\ mem["t1"].num_chunks = 3
    /\ HaltedTeardown("t1", 0, 2)
    /\ pc["t1"] = "idle"
    /\ Len(Ops(calls["t1"], "cuMemUnmap")) = 1
    /\ Cardinality(live) = 2

(***************************************************************************)
(* The allocated flag in main's runs.                                      *)
(***************************************************************************)
\* allocate_device_memory has returned false for t's region.
AllocateFailed(t) == pc[t] \in {"alloc_failed", "unreleased"}

\* What create_and_map, whose log calls[t] is, produced for the region is
\* held by the driver: the handles it created are live, the mappings it
\* made are in place, the access it granted is in force.
ProducedHeld(t) ==
    \A j \in 1..Len(calls[t]) :
        LET c == calls[t][j]
        IN  /\ (c.op = "cuMemCreate" /\ c.ok) => c.h \in live
            /\ (c.op = "cuMemMap" /\ c.ok) =>
                  [addr |-> c.addr, size |-> c.size, h |-> c.h] \in mapped
            /\ (c.op = "cuMemSetAccess" /\ c.ok) =>
                  [addr |-> c.addr, size |-> c.size, device |-> mem[t].device] \in access

\* A step in which free_device_memory issues the address-free for t's
\* region (CallsTeardown is the step in which it calls unmap_and_release).
IssuesAddressFree(t) == pc[t] = "idle" /\ pc'[t] \in {"freed", "free_failed"}

\* C22: in main's runs a region for which allocate_device_memory returned
\* false stays in that position for the rest of the run with its flag false:
\* no invocation of unmap_and_release is made for it, no unmap and no
\* release is issued for it, its range is not freed; its reservation (when
\* the reservation did not fail) and the handles, mappings and access
\* create_and_map produced stay held, while main goes on to allocate and to
\* tear down the other region.  Conversely unmap_and_release is called and
\* the address-free issued only for a region whose flag is true, and unmap
\* and release calls are issued by unmap_and_release only.
C22_TeardownOnlyIfAllocated ==
    /\ [][\A t \in Threads :
            /\ AllocateFailed(t) => AllocateFailed(t)'
            /\ (CallsTeardown(t) \/ IssuesAddressFree(t)) => mem[t].allocated]_vars
    /\ [](\A t \in Threads :
            /\ AllocateFailed(t) =>
                  /\ ~mem[t].allocated
                  /\ fn[t] # "unmap_and_release"
                  /\ ncalls[t] <= 1
                  /\ Ops(calls[t], "cuMemUnmap") = << >>
                  /\ Ops(calls[t], "cuMemRelease") = << >>
                  /\ hist[t] # << >> =>
                        [base |-> mem[t].d_mem, size |-> mem[t].alignedSize] \in reserved
                  /\ ProducedHeld(t)
            /\ fn[t] = "unmap_and_release" => (mem[t].allocated \/ pc[t] = "freed")
            /\ pc[t] \in {"freed", "free_failed"} => fn[t] = "unmap_and_release"
            /\ pc[t] = "free_failed" => mem[t].allocated
            /\ fn[t] # "unmap_and_release" =>
                  /\ Ops(calls[t], "cuMemUnmap") = << >>
                  /\ Ops(calls[t], "cuMemRelease") = << >>)

\* C22 witness: main is over; for the first region (2 chunks) create_and_map
\* halted at the mapping of chunk 1, the verification failed and
\* allocate_device_memory returned false: its range is still reserved, its
\* two handles live and chunk 0 mapped; the second region was allocated,
\* torn down and its range freed.
C22_Witness ==
    /\ pc["t1"] = "unreleased" /\ pc["t2"] = "freed"
    /\ mem["t1"].num_chunks = 2
    /\ LastCall("t1").op = "cuMemMap" /\ LastCall("t1").idx = 1 /\ ~LastCall("t1").ok
    /\ reserved = {[base |-> mem["t1"].d_mem, size |-> mem["t1"].alignedSize]}
    /\ live = {HandleOf("t1", 0), HandleOf("t1", 1)}
    /\ Cardinality(live) = 2
    /\ mapped = {[addr |-> mem["t1"].d_mem, size |-> SizeOf("t1", 0), h |-> HandleOf("t1", 0)]}
    /\ ~mem["t1"].allocated /\ ~mem["t2"].allocated
    /\ hist["t2"][2].ok

\* A second case of C22: the region was built without error and the
\* verification failed (the copy back or the comparison); it stays mapped
\* and accessible when main is over.
VerifyFailedHeld ==
    /\ \A t \in Threads : pc[t] \in MainEnd
    /\ pc["t1"] = "unreleased"
    /\ hist["t1"] # << >> /\ hist["t1"][1].ok
    /\ access # {}
    /\ \A k \in Chunks("t1") : MappedWithHandle("t1", k) /\ HandleOf("t1", k) \in live

=============================================================================
